---- MODULE Spec2Model ----
(***************************************************************************)
(* Request-handling core of the OGC server (src/ogcserver/common.py):      *)
(* parameter validation (BaseServiceHandler.processParameters), the map    *)
(* builder (WMSBaseServiceHandler._buildMap, GetMap, GetFeatureInfo) and   *)
(* the exception dispatcher (BaseExceptionHandler).                        *)
(***************************************************************************)
EXTENDS Integers, Sequences, FiniteSets, TLC

VARIABLES
    \* ---- processParameters ----
    SERVICE_PARAMS,   \* the schema of one request name: paramname -> ParameterDefinition
    params,           \* the caller's parameter mapping (a dict, passed by reference)
    params0,          \* the caller's mapping as it was when the call was made
    ppdone,           \* whether processParameters has run
    ppresult,         \* what the call did: a returned mapping or a raised error
    \* ---- BaseExceptionHandler ----
    handler,          \* the exception handler object: debug, base, defaulthandler
    HAS_PIL,          \* whether the PIL import succeeded at module load
    excinfo,          \* the failure in flight: exc_info()
    eparams,          \* the raw request parameters handed to getresponse
    eresult,          \* what getresponse did: a Response or a secondary failure
    \* ---- WMSBaseServiceHandler ----
    mapfactory,       \* the catalog: ordered_layers, layers, meta_layers, styles, ...
    heap,             \* the Layer objects, by reference: the catalog's and the copies
    features,         \* the rendering engine's answer at the query point, per layer name
    rparams,          \* per request thread: the validated parameters
    pc,               \* per request thread: where it is in _buildMap / its operation
    m,                \* per request thread: the Map being built
    result            \* per request thread: the Response, the Map or the error raised

ppvars == <<SERVICE_PARAMS, params, params0, ppdone, ppresult>>
excvars == <<handler, HAS_PIL, excinfo, eparams, eresult>>
mapvars == <<mapfactory, heap, features, rparams, pc, m, result>>

vars == <<SERVICE_PARAMS, params, params0, ppdone, ppresult,
          handler, HAS_PIL, excinfo, eparams, eresult,
          mapfactory, heap, features, rparams, pc, m, result>>

-----------------------------------------------------------------------------
(* Values.  A raw request value is a string; casts produce typed values.   *)

MaxInt == 2

None == [t |-> "none"]
StrV(s) == [t |-> "str", s |-> s]
IntV(n) == [t |-> "int", n |-> n]
CRSV(ns, code) == [t |-> "crs", namespace |-> ns, code |-> code]

Digits == {ToString(n) : n \in 0..MaxInt}
RawStrings == Digits \cup {"x", "EPSG:1"}

\* Python truth value of a cast value or default (None, 0 and '' are false).
Truthy(v) ==
    CASE v.t = "none" -> FALSE
      [] v.t = "int" -> v.n # 0
      [] v.t = "str" -> v.s # ""
      [] OTHER -> TRUE

Ok(v) == [ok |-> TRUE, val |-> v]
Raise(ogc, kind) == [ok |-> FALSE, ogc |-> ogc, kind |-> kind]

\* CRS.__init__: the namespace is stored in lower case, the code as an integer.
CRS(namespace, code) ==
    CRSV(IF namespace = "EPSG" THEN "epsg" ELSE namespace, code)

\* CRSFactory(['EPSG']).__call__
CRSFactory(crsstring) ==
    IF crsstring = "EPSG:1" THEN Ok(CRS("EPSG", 1)) ELSE Raise(TRUE, "InvalidCRS")

\* The cast callables a ParameterDefinition may carry: int, str, CRSFactory.
\* A raw value is a string; a failed int() raises ValueError (not an OGCException).
Casts == {"int", "str", "crs"}

Cast(cast, raw) ==
    CASE cast = "int" ->
            IF raw.t = "str" /\ raw.s \in Digits
            THEN Ok(IntV(CHOOSE n \in 0..MaxInt : ToString(n) = raw.s))
            ELSE IF raw.t = "int" THEN Ok(raw) ELSE Raise(FALSE, "ValueError")
      [] cast = "str" ->
            IF raw.t = "str" THEN Ok(raw) ELSE Raise(FALSE, "TypeError")
      [] OTHER ->
            IF raw.t = "str" THEN CRSFactory(raw.s) ELSE Raise(FALSE, "TypeError")

\* ParameterDefinition.__init__ ; allowedvalues = {} stands for None or ().
ParameterDefinition(mandatory, cast, default, allowedvalues, fallback) ==
    [mandatory |-> mandatory, cast |-> cast, default |-> default,
     allowedvalues |-> allowedvalues, fallback |-> fallback]

ParameterDefinitions ==
    { ParameterDefinition(md, c, d, av, fb) :
        md \in BOOLEAN, c \in {"int", "crs"}, d \in {None, IntV(1)},
        av \in {{}, {IntV(1)}}, fb \in BOOLEAN }

ParamNames == {"p1", "p2"}
Unrecognized == "zz"

NoError == [kind |-> "none", paramname |-> ""]
Error(kind, paramname) == [kind |-> kind, paramname |-> paramname]

Dicts(keys, values) == UNION { [d -> values] : d \in SUBSET keys }

-----------------------------------------------------------------------------
(* BaseExceptionHandler *)

Absent == "<absent>"
has_key(d, k) == d[k] # Absent

\* PIL_TYPE_MAPPING (a KeyError for any other format)
PIL_TYPE_MAPPING ==
    [f \in {"image/jpeg", "image/png", "image/png8"} |->
        CASE f = "image/jpeg" -> "jpeg" [] f = "image/png" -> "png" [] OTHER -> "png256"]

\* str.replace('8', '') on a format, str.replace('256', '') on a PIL type
Strip8(format) == IF format = "image/png8" THEN "image/png" ELSE format
Strip256(piltype) == IF piltype = "png256" THEN "png" ELSE piltype

\* The handler registry of the concrete exception handler: the exceptions
\* values it knows and the rendering each selects.
handlers == [e \in {"xml", "inimage", "blank"} |-> e]
xmlmimetype == "text/xml"

Response(content_type, content) ==
    [status |-> "response", content_type |-> content_type, content |-> content,
     error |-> "none"]
Failure(error) ==
    [status |-> "raised", content_type |-> "", content |-> <<>>, error |-> error]

\* int(params[key]): KeyError when absent, ValueError when not a number
IntParam(ps, key) ==
    IF ~has_key(ps, key) THEN Raise(FALSE, "KeyError")
    ELSE IF ps[key] \in Digits
         THEN Ok(CHOOSE n \in 0..MaxInt : ToString(n) = ps[key])
         ELSE Raise(FALSE, "ValueError")

htmlhandler(code, message) ==
    IF code # ""
    THEN Response("text/html", <<"<h2>OGCServer Error:</h2><pre>", message, code>>)
    ELSE Response("text/html", <<message>>)

xmlhandler(code, message, ps) ==
    Response(xmlmimetype, <<"<ServiceException>", message, code>>)

\* The image bytes of new('RGBA', (width, height)[, color]) saved in a format.
ImageOf(pilformat, w, h, fill, text) ==
    <<pilformat, w, h, fill, text>>

inimagehandler(code, message, ps) ==
    IF ~HAS_PIL THEN Failure("NameError")
    ELSE LET w == IntParam(ps, "width") h == IntParam(ps, "height") IN
         IF ~w.ok THEN Failure(w.kind)
         ELSE IF ~h.ok THEN Failure(h.kind)
         ELSE IF ps["format"] \notin DOMAIN PIL_TYPE_MAPPING THEN Failure("KeyError")
         ELSE Response(Strip8(ps["format"]),
                       ImageOf(Strip256(PIL_TYPE_MAPPING[ps["format"]]),
                               w.val, h.val, "alpha", message))

\* A color string PIL accepts, after '0x' is replaced by '#'.
PilColor(bgcolor) == bgcolor \in {"#FFFFFF", "0xFF0000"}

blankhandler(code, message, ps) ==
    LET bgcolor == IF has_key(ps, "bgcolor") THEN ps["bgcolor"] ELSE "#FFFFFF"
        transparent == IF has_key(ps, "transparent") THEN ps["transparent"] ELSE "FALSE"
        w == IntParam(ps, "width")
        h == IntParam(ps, "height")
    IN  IF ~HAS_PIL THEN Failure("NameError")
        ELSE IF ~w.ok THEN Failure(w.kind)
        ELSE IF ~h.ok THEN Failure(h.kind)
        ELSE IF transparent \notin {"TRUE", "true", "True"} /\ ~PilColor(bgcolor)
        THEN Failure("ValueError")
        ELSE IF ps["format"] \notin DOMAIN PIL_TYPE_MAPPING THEN Failure("KeyError")
        ELSE Response(Strip8(ps["format"]),
                      ImageOf(Strip256(PIL_TYPE_MAPPING[ps["format"]]), w.val, h.val,
                              IF transparent \in {"TRUE", "true", "True"}
                              THEN "alpha" ELSE bgcolor, ""))

RunHandler(name, code, message, ps) ==
    CASE name = "xml" -> xmlhandler(code, message, ps)
      [] name = "inimage" -> inimagehandler(code, message, ps)
      [] OTHER -> blankhandler(code, message, ps)

\* getresponse without the debug test of line 492: the client's preference
\* is honoured in debug mode too.
getresponse_result_preference(ps) ==
    LET empty == \A k \in DOMAIN ps : ~has_key(ps, k)
        message == "\n" \o excinfo.text
        code == IF excinfo.ogc /\ excinfo.nargs > 1 THEN excinfo.code ELSE ""
        exceptions == IF has_key(ps, "exceptions") THEN ps["exceptions"] ELSE ""
        chosen == IF exceptions = "" \/ exceptions \notin DOMAIN handlers
                  THEN handler.defaulthandler ELSE exceptions
    IN  IF handler.base /\ empty
        THEN [ran |-> "html", resp |-> htmlhandler("", "<h2>Welcome to the Mapnik OGCServer.</h2>")]
        ELSE [ran |-> handlers[chosen], resp |-> RunHandler(handlers[chosen], code, message, ps)]

\* getresponse: the rendering that ran and what it gave
getresponse_result(ps) ==
    LET empty == \A k \in DOMAIN ps : ~has_key(ps, k)
        message == "\n" \o excinfo.text
        code == IF excinfo.ogc /\ excinfo.nargs > 1 THEN excinfo.code ELSE ""
        exceptions == IF has_key(ps, "exceptions") THEN ps["exceptions"] ELSE ""
        chosen == IF exceptions = "" \/ exceptions \notin DOMAIN handlers
                  THEN handler.defaulthandler ELSE exceptions
    IN  IF handler.base /\ empty
        THEN [ran |-> "html", resp |-> htmlhandler("", "<h2>Welcome to the Mapnik OGCServer.</h2>")]
        ELSE IF handler.debug
        THEN [ran |-> "html", resp |-> htmlhandler(code, message)]
        ELSE [ran |-> handlers[chosen], resp |-> RunHandler(handlers[chosen], code, message, ps)]

NoResult == [status |-> "none", content_type |-> "", content |-> <<>>, error |-> "none",
             ran |-> "none"]

getresponse ==
    /\ eresult.status = "none"
    /\ eresult' = getresponse_result(eparams).resp
                    @@ [ran |-> getresponse_result(eparams).ran]
    /\ UNCHANGED <<handler, HAS_PIL, excinfo, eparams>>
    /\ UNCHANGED ppvars
    /\ UNCHANGED mapvars


-----------------------------------------------------------------------------
(* The catalog (mapfactory) and the Layer objects *)

MaxCoord == 1
MaxLen == 2
MaxFeat == 1

Threads == {1, 2}

NoAttr == "<noattr>"     \* hasattr(obj, name) is false
NoneS == "None"

\* A Layer object.  Layer(name) starts with an empty style list.
Layer(name, queryable, wmsdefaultstyle, wmsextrastyles, meta_style) ==
    [name |-> name, queryable |-> queryable, styles |-> <<>>,
     wmsdefaultstyle |-> wmsdefaultstyle, wmsextrastyles |-> wmsextrastyles,
     meta_style |-> meta_style]

\* The references of the catalog's own Layer objects.
RoadsRef == 1
RiversRef == 2
MetaRef == 3
CatalogRefs == {RoadsRef, RiversRef, MetaRef}

\* A catalog as startup leaves it: two concrete layers, optionally a meta
\* layer declared before them, a style table, one aggregate style.  Every
\* default and extra style is a style or an aggregate style, every aggregate
\* member is a style (construction rejects undefined style references).
Catalog(roadsdefault, q1, q2, withmeta, bgcolor, buffer_size) ==
    [ordered_layers |-> IF withmeta THEN <<MetaRef, RoadsRef, RiversRef>>
                        ELSE <<RoadsRef, RiversRef>>,
     layers |-> [n \in {"roads", "rivers"} |-> IF n = "roads" THEN RoadsRef ELSE RiversRef],
     meta_layers |-> IF withmeta THEN [n \in {"roads_meta"} |-> MetaRef] ELSE <<>>,
     styles |-> {"s1", "s2"},
     aggregatestyles |-> [n \in {"agg"} |-> <<"s1", "s2">>],
     meta_styles |-> IF withmeta THEN {"roads_meta"} ELSE {},
     map_attributes |-> [bgcolor |-> bgcolor, buffer_size |-> buffer_size],
     roadsdefault |-> roadsdefault, q1 |-> q1, q2 |-> q2]

\* The Layer objects a catalog holds at startup.
CatalogHeap(cat) ==
    [ref \in CatalogRefs |->
        CASE ref = RoadsRef -> Layer("roads", cat.q1, cat.roadsdefault, {"s1", "agg"}, NoAttr)
          [] ref = RiversRef -> Layer("rivers", cat.q2, "s2", {"s1", "s2"}, NoAttr)
          [] OTHER -> Layer("roads_meta", TRUE, NoAttr, {}, "roads_meta")]

allowedepsgcodes == {"epsg:4326"}

\* copy_layer: a new Layer object carrying obj's attributes and an empty
\* style list.  Gives the heap with the new object and its reference.
copy_layer_alias(h, newref, obj) == [heap |-> h, ref |-> obj]

copy_layer(h, newref, obj) ==
    [heap |-> (newref :> Layer(h[obj].name, h[obj].queryable, h[obj].wmsdefaultstyle,
                               h[obj].wmsextrastyles, h[obj].meta_style)) @@ h,
     ref |-> newref]

\* layer.styles.append(stylename)
styles_append(h, layer, stylename) ==
    [h EXCEPT ![layer].styles = Append(@, stylename)]

RECURSIVE styles_extend(_, _, _)
styles_extend(h, layer, stylenames) ==
    IF stylenames = <<>> THEN h
    ELSE styles_extend(styles_append(h, layer, Head(stylenames)), layer, Tail(stylenames))

Range(seq) == { seq[i] : i \in DOMAIN seq }

-----------------------------------------------------------------------------
(* _buildMap *)

\* Lines 366-369: the bounding box test.
BBoxInvalid_strict(bbox) == bbox[1] > bbox[3] \/ bbox[2] > bbox[4]

BBoxInvalid(bbox) == bbox[1] >= bbox[3] \/ bbox[2] >= bbox[4]

\* Lines 378-384: the background; "unset" is the Map's own default.
Background(ps) ==
    IF has_key(ps, "transparent") /\ ps.transparent \in {"FALSE", "False", "false"}
    THEN IF ~has_key(ps, "bgcolor") THEN Raise(FALSE, "KeyError")
         ELSE IF ps.bgcolor # NoneS THEN Ok(ps.bgcolor) ELSE Ok("unset")
    ELSE IF ~has_key(ps, "transparent") /\ mapfactory.map_attributes.bgcolor # NoneS
    THEN Ok(mapfactory.map_attributes.bgcolor)
    ELSE Ok("Color(0,0,0,0)")

\* Lines 386-392: the buffer; 0 is the Map's own default.
BufferSize(ps) ==
    IF ps.has_buffer_size
    THEN ps.buffer_size
    ELSE mapfactory.map_attributes.buffer_size

\* Lines 396, 407, 425: which of the three layer loops runs.
Mode(ps) ==
    IF ps.layers # <<>> /\ ps.layers[1] \in {"osm_haiti_overlay", "osm_haiti_overlay_900913"}
    THEN "overlay"
    ELSE IF ps.layers # <<>> /\ ps.layers[1] = "__all__" THEN "all"
    ELSE "explicit"

LoopItems(ps) ==
    IF Mode(ps) = "explicit" THEN ps.layers ELSE mapfactory.ordered_layers

NewRef(r, i) == r * 10 + i

NoMap == [background |-> "unset", buffer_size |-> 0, layers |-> <<>>, styles |-> {},
          extent |-> <<>>, idx |-> 0]
NoOutcome == [status |-> "none", kind |-> "", content_type |-> "", content |-> <<>>]
Raised(kind) == [status |-> "raised", kind |-> kind, content_type |-> "", content |-> <<>>]

\* Lines 364-392: validation, Map(), background and buffer.
BuildMapStart(r) ==
    /\ pc[r] = "start"
    /\ LET ps == rparams[r] bg == Background(ps) IN
       IF ps.crs \notin allowedepsgcodes
       THEN /\ pc' = [pc EXCEPT ![r] = "failed"]
            /\ result' = [result EXCEPT ![r] = Raised("InvalidCRS")]
            /\ m' = m
       ELSE IF BBoxInvalid(ps.bbox)
       THEN /\ pc' = [pc EXCEPT ![r] = "failed"]
            /\ result' = [result EXCEPT ![r] = Raised("InvalidBBox")]
            /\ m' = m
       ELSE IF ~bg.ok
       THEN /\ pc' = [pc EXCEPT ![r] = "failed"]
            /\ result' = [result EXCEPT ![r] = Raised(bg.kind)]
            /\ m' = m
       ELSE /\ pc' = [pc EXCEPT ![r] = "layers"]
            /\ m' = [m EXCEPT ![r] = [NoMap EXCEPT !.background = bg.val,
                                                   !.buffer_size = BufferSize(ps),
                                                   !.idx = 1]]
            /\ result' = result
    /\ UNCHANGED <<mapfactory, heap, features, rparams>>
    /\ UNCHANGED ppvars
    /\ UNCHANGED excvars

\* Lines 416-420: the style chain of a layer in __all__ mode.
AllModeStyles_unexpanded(reqstyle) == <<reqstyle>>

AllModeStyles(reqstyle) ==
    IF reqstyle \in DOMAIN mapfactory.aggregatestyles
    THEN mapfactory.aggregatestyles[reqstyle]
    ELSE <<reqstyle>>

\* Lines 447-451: the style chain of a layer in explicit mode.
ExplicitStyles(reqstyle) ==
    IF reqstyle \in DOMAIN mapfactory.aggregatestyles
    THEN mapfactory.aggregatestyles[reqstyle]
    ELSE <<reqstyle>>

Step(h, mm, err) == [heap |-> h, m |-> mm, err |-> err]

\* Lines 397-404: one iteration of the overlay loop.
OverlayIter(h, mm, r, i) ==
    LET c == copy_layer(h, NewRef(r, i), mapfactory.ordered_layers[i])
        layer == c.ref
        meta_style == c.heap[layer].meta_style
    IN  IF meta_style = NoAttr THEN Step(h, mm, "none")
        ELSE IF meta_style \notin mapfactory.meta_styles
        THEN Step(styles_append(c.heap, layer, meta_style), mm, "KeyError")
        ELSE Step(styles_append(c.heap, layer, meta_style),
                  [mm EXCEPT !.styles = @ \cup {meta_style}, !.layers = Append(@, layer)],
                  "none")

\* Lines 408-424: one iteration of the __all__ loop.
AllIter(h, mm, r, i) ==
    LET c == copy_layer(h, NewRef(r, i), mapfactory.ordered_layers[i])
        layer == c.ref
    IN  IF c.heap[layer].meta_style # NoAttr THEN Step(h, mm, "none")
        ELSE LET h2 == styles_extend(c.heap, layer,
                                     AllModeStyles(c.heap[layer].wmsdefaultstyle))
             IN  Step(h2,
                      [mm EXCEPT !.styles = @ \cup (Range(h2[layer].styles)
                                                      \cap mapfactory.styles),
                                 !.layers = Append(@, layer)],
                      "none")

\* Lines 439-442: the requested style, by position; '' past the end of styles.
RequestedStyle(ps, layerindex) ==
    IF layerindex \in DOMAIN ps.styles THEN ps.styles[layerindex] ELSE ""

\* Line 443: the requested style is not one the layer allows.
StyleRefused_never(reqstyle, wmsextrastyles) == FALSE

StyleRefused(reqstyle, wmsextrastyles) ==
    reqstyle # "" /\ reqstyle \notin wmsextrastyles

\* Lines 426-459: one iteration of the explicit loop.
ExplicitIter(h, mm, r, i) ==
    LET ps == rparams[r]
        layername == ps.layers[i]
    IN  IF layername \in DOMAIN mapfactory.meta_layers
        THEN LET c == copy_layer(h, NewRef(r, i), mapfactory.meta_layers[layername])
                 h2 == styles_append(c.heap, c.ref, layername)
             IN  IF layername \notin mapfactory.meta_styles THEN Step(h2, mm, "KeyError")
                 ELSE Step(h2, [mm EXCEPT !.styles = @ \cup {layername},
                                          !.layers = Append(@, c.ref)], "none")
        ELSE IF layername \notin DOMAIN mapfactory.layers
        THEN Step(h, mm, "LayerNotDefined")
        ELSE LET c == copy_layer(h, NewRef(r, i), mapfactory.layers[layername])
                 layer == c.ref
                 reqstyle == RequestedStyle(ps, i)
             IN  IF StyleRefused(reqstyle, c.heap[layer].wmsextrastyles)
                 THEN Step(h, mm, "StyleNotDefined")
                 ELSE LET style == IF reqstyle = "" THEN c.heap[layer].wmsdefaultstyle
                                   ELSE reqstyle
                          h2 == styles_extend(c.heap, layer, ExplicitStyles(style))
                      IN  IF Range(h2[layer].styles) \subseteq mapfactory.styles
                          THEN Step(h2, [mm EXCEPT !.styles = @ \cup Range(h2[layer].styles),
                                                   !.layers = Append(@, layer)], "none")
                          ELSE Step(h2, [mm EXCEPT !.styles = @ \cup
                                            (Range(h2[layer].styles) \cap mapfactory.styles)],
                                    "ServerConfigurationError")

\* One iteration of the layer loop the request's mode selects.
BuildMapLayer(r) ==
    /\ pc[r] = "layers"
    /\ m[r].idx <= Len(LoopItems(rparams[r]))
    /\ LET mode == Mode(rparams[r])
           st == CASE mode = "overlay" -> OverlayIter(heap, m[r], r, m[r].idx)
                   [] mode = "all" -> AllIter(heap, m[r], r, m[r].idx)
                   [] OTHER -> ExplicitIter(heap, m[r], r, m[r].idx)
       IN  /\ heap' = st.heap
           /\ IF st.err = "none"
              THEN /\ m' = [m EXCEPT ![r] = [st.m EXCEPT !.idx = @ + 1]]
                   /\ UNCHANGED <<pc, result>>
              ELSE /\ m' = [m EXCEPT ![r] = st.m]
                   /\ pc' = [pc EXCEPT ![r] = "failed"]
                   /\ result' = [result EXCEPT ![r] = Raised(st.err)]
    /\ UNCHANGED <<mapfactory, features, rparams>>
    /\ UNCHANGED ppvars
    /\ UNCHANGED excvars

\* Lines 460-461: zoom_to_box and return.
BuildMapFinish(r) ==
    /\ pc[r] = "layers"
    /\ m[r].idx > Len(LoopItems(rparams[r]))
    /\ m' = [m EXCEPT ![r].extent = rparams[r].bbox]
    /\ pc' = [pc EXCEPT ![r] = "built"]
    /\ UNCHANGED <<mapfactory, heap, features, rparams, result>>
    /\ UNCHANGED ppvars
    /\ UNCHANGED excvars

\* GetMap, lines 311-316: build, render, encode.
GetMap(r) ==
    /\ pc[r] = "built"
    /\ rparams[r].request = "GetMap"
    /\ result' = [result EXCEPT ![r] =
          IF rparams[r].format \notin DOMAIN PIL_TYPE_MAPPING THEN Raised("KeyError")
          ELSE [status |-> "response", kind |-> "",
                content_type |-> Strip8(rparams[r].format),
                content |-> <<PIL_TYPE_MAPPING[rparams[r].format]>>]]
    /\ pc' = [pc EXCEPT ![r] = "done"]
    /\ UNCHANGED <<mapfactory, heap, features, rparams, m>>
    /\ UNCHANGED ppvars
    /\ UNCHANGED excvars

\* m.query_point(layerindex, i, j).features: the features the rendering engine
\* finds at the query point in the layer at that index of the map.
query_point(mm, layerindex) ==
    [k \in 1..features[heap[mm.layers[layerindex]].name] |->
        [layer |-> heap[mm.layers[layerindex]].name, fid |-> k]]

\* writer.addlayer(name), then addfeature/addattribute for each feature
addlayer(doc, name, feats) == Append(doc, [name |-> name, features |-> feats])

\* 'if features:' of lines 328 and 347, taken to be true for every feature set.
HasFeatures_always(feats) == TRUE

\* 'if features:' of lines 328 and 347: the feature list is not empty.
HasFeatures(feats) == feats # <<>>

\* Lines 325-337: the __all__ loop over m.layers.
RECURSIVE QueryAll(_, _, _)
QueryAll(mm, layerindex, doc) ==
    IF layerindex > Len(mm.layers) THEN [err |-> "none", doc |-> doc]
    ELSE LET feats == query_point(mm, layerindex) IN
         QueryAll(mm, layerindex + 1,
                  IF HasFeatures(feats)
                  THEN addlayer(doc, heap[mm.layers[layerindex]].name, feats)
                  ELSE doc)

\* Lines 344-348: the layer a query_layers entry is answered from: the one at
\* the entry's own position in the map's layer list.
QueriedLayerIndex(mm, ps, layerindex, layername) == layerindex

\* Lines 339-360: the loop over query_layers.
RECURSIVE QueryListed(_, _, _, _)
QueryListed(mm, ps, layerindex, doc) ==
    IF layerindex > Len(ps.query_layers) THEN [err |-> "none", doc |-> doc]
    ELSE LET layername == ps.query_layers[layerindex]
             at == QueriedLayerIndex(mm, ps, layerindex, layername)
         IN  IF layername \notin Range(ps.layers)
             THEN [err |-> "LayerNotInRequest", doc |-> doc]
             ELSE IF at \notin DOMAIN mm.layers
             THEN [err |-> "IndexError", doc |-> doc]
             ELSE IF ~heap[mm.layers[at]].queryable
             THEN [err |-> "LayerNotQueryable", doc |-> doc]
             ELSE LET feats == query_point(mm, at) IN
                  QueryListed(mm, ps, layerindex + 1,
                              IF HasFeatures(feats)
                              THEN addlayer(doc, heap[mm.layers[at]].name, feats)
                              ELSE doc)

\* GetFeatureInfo, lines 318-361, once _buildMap has returned.
GetFeatureInfo(r) ==
    /\ pc[r] = "built"
    /\ rparams[r].request = "GetFeatureInfo"
    /\ LET ps == rparams[r]
           q == IF ps.query_layers # <<>> /\ ps.query_layers[1] = "__all__"
                THEN QueryAll(m[r], 1, <<>>)
                ELSE QueryListed(m[r], ps, 1, <<>>)
       IN  result' = [result EXCEPT ![r] =
              IF q.err # "none" THEN Raised(q.err)
              ELSE [status |-> "response", kind |-> "",
                    content_type |-> ps.info_format, content |-> q.doc]]
    /\ pc' = [pc EXCEPT ![r] = "done"]
    /\ UNCHANGED <<mapfactory, heap, features, rparams, m>>
    /\ UNCHANGED ppvars
    /\ UNCHANGED excvars

-----------------------------------------------------------------------------
(* processParameters *)

\* Line 102: the parameter is absent and mandatory.
IsMissing_optionalWithDefault(ps, paramname, paramdef) ==
    paramname \notin DOMAIN ps /\ paramdef.mandatory /\ paramdef.default = None

IsMissing(ps, paramname, paramdef) ==
    paramname \notin DOMAIN ps /\ paramdef.mandatory

\* Line 111: an allowed-value tuple is declared and the cast value is not in it.
IllegalValue(paramdef, val) ==
    paramdef.allowedvalues # {} /\ val \notin paramdef.allowedvalues

\* Line 112: an illegal value is rejected unless the definition falls back.
Rejects_inverted(paramdef) == paramdef.fallback

Rejects(paramdef) == ~paramdef.fallback

\* Line 115: what an illegal value is replaced by when the definition falls back.
FallbackValue_supplied(paramdef, val) == val

FallbackValue(paramdef, val) == paramdef.default

\* One iteration of the loop over SERVICE_PARAMS[requestname].items().
\* st = [params, finalparams, error]
ppStep(st, paramname, paramdef) ==
    IF IsMissing(st.params, paramname, paramdef)
    THEN [st EXCEPT !.error = Error("MissingParameter", paramname)]
    ELSE IF paramname \in DOMAIN st.params
    THEN LET c == Cast(paramdef.cast, st.params[paramname]) IN
         IF ~c.ok
         THEN [st EXCEPT !.error =
                  Error(IF c.ogc THEN c.kind ELSE "InvalidParameterValue", paramname)]
         ELSE LET p1 == [st.params EXCEPT ![paramname] = c.val] IN
              IF IllegalValue(paramdef, c.val)
              THEN IF Rejects(paramdef)
                   THEN [st EXCEPT !.params = p1,
                                   !.error = Error("IllegalParameterValue", paramname)]
                   ELSE [st EXCEPT !.params = p1,
                                   !.finalparams =
                                       (paramname :> FallbackValue(paramdef, c.val)) @@ @]
              ELSE [st EXCEPT !.params = p1,
                              !.finalparams = (paramname :> c.val) @@ @]
    ELSE IF ~paramdef.mandatory /\ Truthy(paramdef.default)
    THEN [st EXCEPT !.finalparams = (paramname :> paramdef.default) @@ @]
    ELSE st

RECURSIVE ppLoop(_, _, _)
ppLoop(st, schema, order) ==
    IF order = <<>> \/ st.error.kind # "none" THEN st
    ELSE ppLoop(ppStep(st, Head(order), schema[Head(order)]), schema, Tail(order))

\* The orders in which a dict's items() may come.
Orders(S) == { o \in [1..Cardinality(S) -> S] : \A x \in S : \E i \in DOMAIN o : o[i] = x }

processParameters ==
    /\ ~ppdone
    /\ \E order \in Orders(DOMAIN SERVICE_PARAMS) :
         LET st == ppLoop([params |-> params, finalparams |-> <<>>, error |-> NoError],
                          SERVICE_PARAMS, order) IN
         /\ params' = st.params
         /\ ppresult' = IF st.error.kind = "none"
                        THEN [status |-> "returned", finalparams |-> st.finalparams,
                              error |-> NoError]
                        ELSE [status |-> "raised", finalparams |-> <<>>,
                              error |-> st.error]
    /\ ppdone' = TRUE
    /\ UNCHANGED <<SERVICE_PARAMS, params0>>
    /\ UNCHANGED excvars
    /\ UNCHANGED mapvars


-----------------------------------------------------------------------------
(* Initial states and specifications *)

ExcIdle ==
    /\ handler = [debug |-> FALSE, base |-> FALSE, defaulthandler |-> "xml"]
    /\ HAS_PIL = TRUE
    /\ excinfo = [ogc |-> FALSE, nargs |-> 0, code |-> "", text |-> ""]
    /\ eparams = [exceptions |-> Absent, width |-> Absent, height |-> Absent,
                  format |-> Absent, bgcolor |-> Absent, transparent |-> Absent]
    /\ eresult = NoResult

PPIdle ==
    /\ SERVICE_PARAMS = <<>>
    /\ params = <<>>
    /\ params0 = <<>>
    /\ ppdone = TRUE
    /\ ppresult = [status |-> "none", finalparams |-> <<>>, error |-> NoError]

BaseParams ==
    [request |-> "GetMap", crs |-> "epsg:4326", bbox |-> <<0, 0, 1, 1>>,
     transparent |-> Absent, bgcolor |-> NoneS,
     has_buffer_size |-> FALSE, buffer_size |-> 0,
     layers |-> <<"roads">>, styles |-> <<>>, format |-> "image/png",
     query_layers |-> <<>>, info_format |-> "text/plain"]

BaseCatalog == Catalog("s1", TRUE, TRUE, TRUE, NoneS, 0)

FeatureNames == {"roads", "rivers", "roads_meta"}

MapIdle ==
    /\ mapfactory = BaseCatalog
    /\ heap = CatalogHeap(BaseCatalog)
    /\ features = [n \in FeatureNames |-> 0]
    /\ rparams = [r \in Threads |-> BaseParams]
    /\ pc = [r \in Threads |-> "idle"]
    /\ m = [r \in Threads |-> NoMap]
    /\ result = [r \in Threads |-> NoOutcome]

Seqs(S, n) == UNION { [1..k -> S] : k \in 0..n }

LayerLists ==
    Seqs({"roads", "rivers", "roads_meta", "nolayer"}, MaxLen)
        \cup {<<"__all__">>, <<"osm_haiti_overlay">>}
StyleLists == Seqs({"", "s1", "agg"}, MaxLen)

\* The requests of one thread, varied one group of parameters at a time
\* around BaseParams: the groups are read by separate sections of _buildMap.
ValidationRequests ==
    { [BaseParams EXCEPT !.crs = c, !.bbox = b, !.layers = l] :
        c \in {"epsg:4326", "epsg:9999"}, b \in [1..4 -> 0..MaxCoord],
        l \in {<<"roads">>, <<"__all__">>} }
BackgroundRequests ==
    { [BaseParams EXCEPT !.transparent = t, !.bgcolor = c,
                         !.has_buffer_size = hb, !.buffer_size = bs] :
        t \in {Absent, "FALSE", "false", "TRUE"}, c \in {Absent, NoneS, "0xFF0000"},
        hb \in BOOLEAN, bs \in {0, 8} }
LayerRequests ==
    { [BaseParams EXCEPT !.layers = l, !.styles = st] :
        l \in LayerLists, st \in StyleLists }
FeatureInfoRequests ==
    { [BaseParams EXCEPT !.request = "GetFeatureInfo", !.layers = l,
                         !.query_layers = ql, !.info_format = f] :
        l \in (Seqs({"roads", "rivers"}, MaxLen) \ {<<>>})
                 \cup {<<"__all__">>, <<"osm_haiti_overlay">>},
        ql \in Seqs({"roads", "rivers"}, MaxLen) \cup {<<"__all__">>},
        f \in {"text/plain", "text/xml"} }

InitThreads(ps1, ps2, active) ==
    /\ rparams = [r \in Threads |-> IF r = 1 THEN ps1 ELSE ps2]
    /\ pc = [r \in Threads |-> IF r \in active THEN "start" ELSE "idle"]
    /\ m = [r \in Threads |-> NoMap]
    /\ result = [r \in Threads |-> NoOutcome]
    /\ heap = CatalogHeap(mapfactory)

InitMap ==
    /\ PPIdle
    /\ ExcIdle
    /\ \/ /\ mapfactory = BaseCatalog
          /\ features = [n \in FeatureNames |-> MaxFeat]
          /\ \E ps \in ValidationRequests : InitThreads(ps, BaseParams, {1})
       \/ /\ \E bg \in {NoneS, "0xCCCCCC"}, bs \in {0, 16} :
                mapfactory = Catalog("s1", TRUE, TRUE, TRUE, bg, bs)
          /\ features = [n \in FeatureNames |-> MaxFeat]
          /\ \E ps \in BackgroundRequests : InitThreads(ps, BaseParams, {1})
       \/ /\ \E d \in {"s1", "agg"}, wm \in BOOLEAN :
                mapfactory = Catalog(d, TRUE, TRUE, wm, NoneS, 0)
          /\ features = [n \in FeatureNames |-> MaxFeat]
          /\ \E ps \in LayerRequests : InitThreads(ps, BaseParams, {1})
       \/ /\ \E q1 \in BOOLEAN, q2 \in BOOLEAN :
                mapfactory = Catalog("s1", q1, q2, TRUE, NoneS, 0)
          /\ features \in [FeatureNames -> 0..MaxFeat]
          /\ \E ps \in FeatureInfoRequests : InitThreads(ps, BaseParams, {1})

NextMap ==
    \E r \in Threads :
        \/ BuildMapStart(r)
        \/ BuildMapLayer(r)
        \/ BuildMapFinish(r)
        \/ GetMap(r)
        \/ GetFeatureInfo(r)

SpecMap == InitMap /\ [][NextMap]_vars

\* Two request threads calling _buildMap against one shared catalog.
ConcurrentRequests ==
    { [BaseParams EXCEPT !.layers = l] :
        l \in (Seqs({"roads", "roads_meta"}, MaxLen) \ {<<>>})
                 \cup {<<"__all__">>, <<"osm_haiti_overlay">>} }

InitConc ==
    /\ PPIdle
    /\ ExcIdle
    /\ \E d \in {"s1", "agg"}, wm \in BOOLEAN :
          mapfactory = Catalog(d, TRUE, TRUE, wm, NoneS, 0)
    /\ features = [n \in FeatureNames |-> 0]
    /\ \E ps1 \in ConcurrentRequests, ps2 \in ConcurrentRequests :
          InitThreads(ps1, ps2, Threads)

NextConc ==
    \E r \in Threads :
        \/ BuildMapStart(r)
        \/ BuildMapLayer(r)
        \/ BuildMapFinish(r)

SpecConc == InitConc /\ [][NextConc]_vars

EParams ==
    [exceptions : {Absent, "", "xml", "inimage", "blank", "bogus"},
     width : {Absent, "1", "x"},
     height : {Absent, "1", "x"},
     format : {Absent, "image/png", "image/png8", "image/jpeg", "image/tiff"},
     bgcolor : {Absent, "0xFF0000", "zz"},
     transparent : {Absent, "TRUE"}]

ExcInfos ==
    { [ogc |-> TRUE, nargs |-> 2, code |-> "LayerNotDefined", text |-> "OGCException: Layer not defined."],
      [ogc |-> TRUE, nargs |-> 1, code |-> "", text |-> "OGCException: BBOX values don't make sense."],
      [ogc |-> FALSE, nargs |-> 1, code |-> "", text |-> "KeyError: 'layers'"] }

InitExc ==
    /\ handler \in [debug : BOOLEAN, base : BOOLEAN, defaulthandler : DOMAIN handlers]
    /\ HAS_PIL \in BOOLEAN
    /\ excinfo \in ExcInfos
    /\ eparams \in EParams
    /\ eresult = NoResult
    /\ PPIdle
    /\ MapIdle

NextExc == getresponse

SpecExc == InitExc /\ [][NextExc]_vars

InitPP ==
    /\ SERVICE_PARAMS \in [ParamNames -> ParameterDefinitions]
    /\ \E known \in Dicts(ParamNames, {StrV(s) : s \in RawStrings}),
          extra \in Dicts({Unrecognized}, {StrV("x")}) :
            params = known @@ extra
    /\ params0 = params
    /\ ppdone = FALSE
    /\ ppresult = [status |-> "none", finalparams |-> <<>>, error |-> NoError]
    /\ ExcIdle
    /\ MapIdle

NextPP == processParameters

SpecPP == InitPP /\ [][NextPP]_vars

-----------------------------------------------------------------------------
(* Properties of processParameters *)

\* What the schema says of a declared parameter and the caller's input.
Supplied(p) == p \in DOMAIN params0
CastOf(p) == Cast(SERVICE_PARAMS[p].cast, params0[p])
MissingMandatory(p) == ~Supplied(p) /\ SERVICE_PARAMS[p].mandatory
CastFails(p) == Supplied(p) /\ ~CastOf(p).ok
OutsideAllowed(p) ==
    /\ Supplied(p) /\ CastOf(p).ok
    /\ SERVICE_PARAMS[p].allowedvalues # {}
    /\ CastOf(p).val \notin SERVICE_PARAMS[p].allowedvalues
\* The error the parameter's own iteration raises, "none" when it raises nothing.
OwnError(p) ==
    CASE MissingMandatory(p) -> "MissingParameter"
      [] CastFails(p) -> IF CastOf(p).ogc THEN CastOf(p).kind ELSE "InvalidParameterValue"
      [] OutsideAllowed(p) /\ ~SERVICE_PARAMS[p].fallback -> "IllegalParameterValue"
      [] OTHER -> "none"
RaisedOwnErrorOfSomeParameter ==
    /\ ppresult.status = "raised"
    /\ ppresult.finalparams = <<>>
    /\ ppresult.error.paramname \in ParamNames
    /\ ppresult.error.kind = OwnError(ppresult.error.paramname)
    /\ ppresult.error.kind # "none"

\* C1: after processParameters (returned or raised) the caller's input mapping
\* holds the same keys and the same uncast values as before the call.
C1_InputUnchanged == ppdone => params = params0

\* C4 as stated: an input lacking a mandatory parameter always fails with the
\* missing-parameter error, whatever the other parameters are.
C4_AlwaysMissingParameter ==
    (ppdone /\ \E p \in ParamNames : MissingMandatory(p)) =>
        /\ ppresult.status = "raised"
        /\ ppresult.error.kind = "MissingParameter"

\* C4 amended: an input lacking a mandatory parameter always fails and returns
\* no result mapping; the error raised is the own error of the first offending
\* parameter in iteration order, which is the missing-parameter error whenever
\* no supplied parameter fails its cast or its allowed-value check.
C4_MissingMandatoryFails ==
    (ppdone /\ \E p \in ParamNames : MissingMandatory(p)) =>
        /\ RaisedOwnErrorOfSomeParameter
        /\ (\A q \in ParamNames : Supplied(q) => OwnError(q) = "none")
              => ppresult.error.kind = "MissingParameter"

C4_Witness ==
    /\ ppdone
    /\ \E p \in ParamNames : MissingMandatory(p)
    /\ \E q \in ParamNames : Supplied(q) /\ OwnError(q) = "none"
    /\ ppresult.status = "raised"
    /\ ppresult.error.kind = "MissingParameter"

\* C5: with an allowed-value tuple and fallback=true, a supplied value that
\* casts to a value outside the tuple never makes the call fail, and a
\* returned mapping holds the declared default for that parameter.
C5_FallbackYieldsDefault ==
    \A p \in ParamNames :
        (ppdone /\ OutsideAllowed(p) /\ SERVICE_PARAMS[p].fallback) =>
            /\ ppresult.status = "raised" => ppresult.error.paramname # p
            /\ ppresult.status = "returned" =>
                  /\ p \in DOMAIN ppresult.finalparams
                  /\ ppresult.finalparams[p] = SERVICE_PARAMS[p].default

C5_Witness ==
    \E p \in ParamNames :
        /\ ppdone /\ OutsideAllowed(p) /\ SERVICE_PARAMS[p].fallback
        /\ ppresult.status = "returned"
        /\ SERVICE_PARAMS[p].default # CastOf(p).val
        /\ ppresult.finalparams[p] = SERVICE_PARAMS[p].default

\* C6 as stated: with fallback=false a value outside the allowed tuple always
\* makes the call fail with the illegal-value error.
C6_AlwaysIllegalValue ==
    \A p \in ParamNames :
        (ppdone /\ OutsideAllowed(p) /\ ~SERVICE_PARAMS[p].fallback) =>
            /\ ppresult.status = "raised"
            /\ ppresult.error.kind = "IllegalParameterValue"

\* C6 amended: with fallback=false a value outside the allowed tuple always
\* makes the call fail and no result mapping is returned; the error is the
\* illegal-value error for that parameter unless another declared parameter
\* visited earlier raised its own error (missing, invalid or illegal) first.
C6_IllegalValueFails ==
    \A p \in ParamNames :
        (ppdone /\ OutsideAllowed(p) /\ ~SERVICE_PARAMS[p].fallback) =>
            /\ RaisedOwnErrorOfSomeParameter
            /\ (\A q \in ParamNames \ {p} : OwnError(q) = "none")
                  => ppresult.error = Error("IllegalParameterValue", p)

C6_Witness ==
    \E p \in ParamNames :
        /\ ppdone /\ OutsideAllowed(p) /\ ~SERVICE_PARAMS[p].fallback
        /\ ppresult.status = "raised"
        /\ ppresult.error = Error("IllegalParameterValue", p)
        /\ ppresult.finalparams = <<>>

-----------------------------------------------------------------------------
(* Properties of the exception dispatcher *)

ExpectedContentType(ran) ==
    CASE ran = "html" -> {"text/html"}
      [] ran = "xml" -> {xmlmimetype}
      [] OTHER -> {"image/png", "image/jpeg"}

\* C3: whatever the request parameters are (width, height or format absent or
\* malformed included), handling a failure returns a non-empty Response of
\* the rendering's content type and raises no secondary failure.
C3_EveryRenderingSucceeds ==
    (HAS_PIL /\ eresult.status # "none") =>
        /\ eresult.status = "response"
        /\ eresult.content # <<>>
        /\ eresult.content_type \in ExpectedContentType(eresult.ran)

\* The handler the client's exceptions parameter selects: the registered
\* handler of that name, the configured default when the parameter is absent,
\* empty or not a registered name.
Preferred ==
    IF has_key(eparams, "exceptions") /\ eparams["exceptions"] \in DOMAIN handlers
    THEN eparams["exceptions"]
    ELSE handler.defaulthandler

NoParams == \A k \in DOMAIN eparams : ~has_key(eparams, k)

\* C12 as stated: for every failure and parameter mapping the rendering is
\* the HTML one in debug mode and the preferred (or default) handler otherwise.
C12_EveryFailureSelected ==
    eresult.status # "none" =>
        eresult.ran = (IF handler.debug THEN "html" ELSE Preferred)

\* C12: a handler built with base=True that is given an empty parameter
\* mapping answers with the HTML welcome page; in every other case debug mode
\* gives the HTML rendering whatever the exceptions parameter says, and
\* otherwise the handler registered under the exceptions parameter runs, the
\* configured default when that parameter is absent, empty or unregistered;
\* exactly one rendering runs.
C12_HandlerSelection ==
    eresult.status # "none" =>
        IF handler.base /\ NoParams
        THEN eresult = htmlhandler("", "<h2>Welcome to the Mapnik OGCServer.</h2>")
                         @@ [ran |-> "html"]
        ELSE /\ eresult.ran = (IF handler.debug THEN "html" ELSE Preferred)
             /\ handler.debug => eresult.content_type = "text/html"

C12_Witness ==
    /\ eresult.status = "response"
    /\ handler.debug /\ ~handler.base
    /\ eparams["exceptions"] = "inimage"
    /\ handler.defaulthandler = "blank"
    /\ eresult.ran = "html"

-----------------------------------------------------------------------------
(* Properties of the map builder *)

Finished(r) == pc[r] \in {"failed", "built", "done"}
Returned(r) == pc[r] \in {"built", "done"}
ReachedLayerLoop(r) == pc[r] \notin {"idle", "start"} /\ m[r].idx >= 1

\* The catalog's Layer objects as they were at startup.
Startup == CatalogHeap(mapfactory)
StartupAggregate(style) ==
    IF style \in DOMAIN mapfactory.aggregatestyles
    THEN mapfactory.aggregatestyles[style] ELSE <<style>>

\* The layers of a built map: name and style chain, in order.
Chains(r) ==
    [i \in DOMAIN m[r].layers |->
        [name |-> heap[m[r].layers[i]].name, styles |-> heap[m[r].layers[i]].styles]]

IsMetaStyled(ref) == Startup[ref].meta_style # NoAttr
IsPlain(ref) == Startup[ref].meta_style = NoAttr

\* What a request resolves to when it runs alone against the startup catalog.
AloneChains(ps) ==
    CASE Mode(ps) = "overlay" ->
            LET sel == SelectSeq(mapfactory.ordered_layers, IsMetaStyled) IN
            [i \in DOMAIN sel |->
                [name |-> Startup[sel[i]].name, styles |-> <<Startup[sel[i]].meta_style>>]]
      [] Mode(ps) = "all" ->
            LET sel == SelectSeq(mapfactory.ordered_layers, IsPlain) IN
            [i \in DOMAIN sel |->
                [name |-> Startup[sel[i]].name,
                 styles |-> StartupAggregate(Startup[sel[i]].wmsdefaultstyle)]]
      [] OTHER ->
            [i \in DOMAIN ps.layers |->
                IF ps.layers[i] \in DOMAIN mapfactory.meta_layers
                THEN [name |-> ps.layers[i], styles |-> <<ps.layers[i]>>]
                ELSE LET own == Startup[mapfactory.layers[ps.layers[i]]]
                         asked == IF i \in DOMAIN ps.styles THEN ps.styles[i] ELSE ""
                     IN  [name |-> own.name,
                          styles |-> StartupAggregate(IF asked = "" THEN own.wmsdefaultstyle
                                                      ELSE asked)]]

\* C2: whatever the interleaving of _buildMap calls, every catalog Layer
\* object keeps the style list and attributes it had at startup, and a request
\* that returns carries the style chains it resolves to when run alone.
C2_CatalogLayersUntouched ==
    /\ mapfactory.ordered_layers \in Seq(CatalogRefs)
    /\ \A ref \in CatalogRefs : heap[ref] = Startup[ref]
    /\ \A r \in Threads :
          Returned(r) =>
              /\ Chains(r) = AloneChains(rparams[r])
              /\ Range(m[r].layers) \cap CatalogRefs = {}

C2_Witness ==
    /\ \A r \in Threads : Returned(r)
    /\ \A r \in Threads : \E i \in DOMAIN m[r].layers :
          /\ heap[m[r].layers[i]].name = "roads"
          /\ heap[m[r].layers[i]].styles # <<>>
    /\ Mode(rparams[1]) # Mode(rparams[2])
    /\ heap[RoadsRef].styles = <<>>

\* C7: with an allowed CRS, a bbox with minx>=maxx or miny>=maxy (equality
\* included) fails with InvalidBBox before any layer is copied or resolved,
\* and a map is returned only when minx<maxx and miny<maxy.
C7_InvalidBBoxFails ==
    LET ps == rparams[1] IN
    (pc[1] \notin {"idle", "start"} /\ ps.crs \in allowedepsgcodes) =>
        /\ (ps.bbox[1] >= ps.bbox[3] \/ ps.bbox[2] >= ps.bbox[4]) =>
              /\ pc[1] = "failed"
              /\ result[1] = Raised("InvalidBBox")
              /\ m[1].layers = <<>>
              /\ DOMAIN heap = CatalogRefs
        /\ Returned(1) => (ps.bbox[1] < ps.bbox[3] /\ ps.bbox[2] < ps.bbox[4])

C7_Witness ==
    /\ pc[1] = "failed"
    /\ rparams[1].crs \in allowedepsgcodes
    /\ rparams[1].bbox[1] = rparams[1].bbox[3]
    /\ rparams[1].bbox[2] < rparams[1].bbox[4]
    /\ result[1] = Raised("InvalidBBox")

\* C8: a layers=__all__ request that returns yields the catalog's layers
\* without a meta style, in declared order, each carrying exactly its default
\* style expanded through the aggregate-style table; every style name an
\* emitted layer carries is a key of the style table and is registered on
\* the map.
C8_AllLayersInOrder ==
    (Returned(1) /\ rparams[1].layers = <<"__all__">>) =>
        LET sel == SelectSeq(mapfactory.ordered_layers, IsPlain) IN
        /\ Len(m[1].layers) = Len(sel)
        /\ \A i \in DOMAIN sel :
              /\ Chains(1)[i].name = Startup[sel[i]].name
              /\ Chains(1)[i].styles = StartupAggregate(Startup[sel[i]].wmsdefaultstyle)
              /\ Range(Chains(1)[i].styles) \subseteq mapfactory.styles
              /\ Range(Chains(1)[i].styles) \subseteq m[1].styles

C8_Witness ==
    /\ Returned(1)
    /\ rparams[1].layers = <<"__all__">>
    /\ Len(mapfactory.ordered_layers) > Len(m[1].layers)
    /\ Len(m[1].layers) = 2
    /\ Chains(1)[1] = [name |-> "roads", styles |-> <<"s1", "s2">>]
    /\ Chains(1)[2] = [name |-> "rivers", styles |-> <<"s2">>]

\* The requested names of an explicit list that the catalog refuses.
UndefinedLayer(ps, i) ==
    /\ ps.layers[i] \notin DOMAIN mapfactory.meta_layers
    /\ ps.layers[i] \notin DOMAIN mapfactory.layers
RefusedStyle(ps, i) ==
    /\ ps.layers[i] \notin DOMAIN mapfactory.meta_layers
    /\ ps.layers[i] \in DOMAIN mapfactory.layers
    /\ i \in DOMAIN ps.styles
    /\ ps.styles[i] # ""
    /\ ps.styles[i] \notin Startup[mapfactory.layers[ps.layers[i]]].wmsextrastyles
Refused(ps, i) == UndefinedLayer(ps, i) \/ RefusedStyle(ps, i)
RefusalError(ps, i) ==
    IF UndefinedLayer(ps, i) THEN "LayerNotDefined" ELSE "StyleNotDefined"

\* C9 as stated: every refused name of an explicit list makes the request
\* fail with that name's own error.
C9_EveryNameOwnError ==
    LET ps == rparams[1] IN
    (Finished(1) /\ ReachedLayerLoop(1) /\ Mode(ps) = "explicit") =>
        \A i \in DOMAIN ps.layers :
            Refused(ps, i) => /\ pc[1] = "failed"
                              /\ result[1] = Raised(RefusalError(ps, i))

\* C9 amended: in explicit-list mode, when some requested name that is not a
\* meta-layer is not a catalog layer, or names a catalog layer but asks (by
\* position) for a non-empty style outside that layer's extra styles, the
\* request fails and returns no map; the error is that of the first such name
\* in list order: LayerNotDefined or StyleNotDefined respectively.
C9_FirstRefusedNameFails ==
    LET ps == rparams[1] IN
    (Finished(1) /\ ReachedLayerLoop(1) /\ Mode(ps) = "explicit"
        /\ \E i \in DOMAIN ps.layers : Refused(ps, i)) =>
        LET first == CHOOSE i \in DOMAIN ps.layers :
                        Refused(ps, i) /\ \A j \in 1..(i - 1) : ~Refused(ps, j)
        IN  /\ pc[1] = "failed"
            /\ result[1] = Raised(RefusalError(ps, first))
            /\ m[1].extent = <<>>

C9_Witness ==
    /\ pc[1] = "failed"
    /\ Mode(rparams[1]) = "explicit"
    /\ Len(rparams[1].layers) = 2
    /\ ~Refused(rparams[1], 1)
    /\ RefusedStyle(rparams[1], 2)
    /\ result[1] = Raised("StyleNotDefined")
    /\ Len(m[1].layers) = 1

\* What GetFeatureInfo gives when each query layer is resolved by its name.
RECURSIVE ByName(_, _, _)
ByName(ps, k, doc) ==
    IF k > Len(ps.query_layers)
    THEN [status |-> "response", kind |-> "", content_type |-> ps.info_format,
          content |-> doc]
    ELSE LET layername == ps.query_layers[k]
             own == IF layername \in DOMAIN mapfactory.meta_layers
                    THEN Startup[mapfactory.meta_layers[layername]]
                    ELSE Startup[mapfactory.layers[layername]]
             feats == [n \in 1..features[layername] |-> [layer |-> layername, fid |-> n]]
         IN  IF layername \notin Range(ps.layers) THEN Raised("LayerNotInRequest")
             ELSE IF ~own.queryable THEN Raised("LayerNotQueryable")
             ELSE ByName(ps, k + 1,
                         IF feats # <<>>
                         THEN Append(doc, [name |-> layername, features |-> feats])
                         ELSE doc)

\* C10: with an explicit query_layers list every named query layer is checked
\* by name (LayerNotInRequest when absent from layers, LayerNotQueryable when
\* its own catalog layer is not queryable) and the point query and the layer
\* block are those of the layer of that name.
C10_QueryLayersByName ==
    LET ps == rparams[1] IN
    (pc[1] = "done" /\ ps.request = "GetFeatureInfo"
        /\ (ps.query_layers = <<>> \/ ps.query_layers[1] # "__all__")) =>
        result[1] = ByName(ps, 1, <<>>)

-----------------------------------------------------------------------------
\* The codes of the OGCException raises of _buildMap and GetFeatureInfo
\* (lines 365-369, 438, 444, 350, 360): the request errors.
RequestErrors ==
    {"InvalidCRS", "InvalidBBox", "LayerNotDefined", "StyleNotDefined",
     "LayerNotQueryable", "LayerNotInRequest"}

\* C11: no per-request operation raises ServerConfigurationError and every
\* failure of a request is a request error (an OGCException).
C11_OnlyRequestErrors ==
    \A r \in Threads :
        result[r].status = "raised" => result[r].kind \in RequestErrors

-----------------------------------------------------------------------------
\* The background the three cases give: the supplied color when transparent
\* is FALSE, False or false and a color is supplied; the catalog's default
\* when transparent is absent and the catalog has one; fully transparent in
\* every other case.
ResolvedBackground(ps) ==
    IF has_key(ps, "transparent") /\ ps.transparent \in {"FALSE", "False", "false"}
          /\ has_key(ps, "bgcolor") /\ ps.bgcolor # NoneS
    THEN ps.bgcolor
    ELSE IF ~has_key(ps, "transparent") /\ mapfactory.map_attributes.bgcolor # NoneS
    THEN mapfactory.map_attributes.bgcolor
    ELSE "Color(0,0,0,0)"

\* C13: once _buildMap has passed the CRS and bbox checks the map's
\* background is the one the three cases give, for every combination of
\* transparent, bgcolor and the catalog's default (transparent=false with no
\* bgcolor supplied gives fully transparent).
C13_BackgroundResolved ==
    \A r \in Threads :
        (pc[r] \notin {"idle", "start"} /\ rparams[r].crs \in allowedepsgcodes
            /\ ~BBoxInvalid(rparams[r].bbox)) =>
            m[r].background = ResolvedBackground(rparams[r])

-----------------------------------------------------------------------------
\* C14: in the document GetFeatureInfo returns (__all__ or listed query
\* layers, either info_format) every layer block holds at least one feature:
\* a layer whose point query finds no feature adds no block.
C14_NoEmptyLayerBlock ==
    \A r \in Threads :
        (rparams[r].request = "GetFeatureInfo" /\ result[r].status = "response") =>
            \A k \in DOMAIN result[r].content :
                /\ result[r].content[k].features # <<>>
                /\ features[result[r].content[k].name] > 0

C14_Witness ==
    /\ rparams[1].request = "GetFeatureInfo"
    /\ rparams[1].layers = <<"roads", "rivers">>
    /\ rparams[1].query_layers = <<"__all__">>
    /\ rparams[1].info_format = "text/xml"
    /\ features["roads"] = 0 /\ features["rivers"] > 0
    /\ result[1].status = "response"
    /\ Len(result[1].content) = 1
    /\ result[1].content[1].name = "rivers"

====
